---------------------------- MODULE Spec2Model ----------------------------
(***************************************************************************)
(* A model of placentagen/analyse_tree.py: the order classifier            *)
(* (evaluate_orders), the terminal finder (calc_terminal_branch), the      *)
(* sampling-grid indexer and binners, the ellipsoid/grid volume            *)
(* calculator and the branch/grid volume calculator.                       *)
(*                                                                         *)
(* Python arrays are modelled as functions over 0..n-1 so that every index *)
(* of the model is the index of the source.  Real numbers are modelled     *)
(* exactly, as integers over a stated common denominator.                  *)
(***************************************************************************)
EXTENDS Integers, Sequences, FiniteSets, TLC

(***************************************************************************)
(* Bounds of the model.                                                    *)
(***************************************************************************)
\* Largest number of elements of a tree numbered parent-before-child.
MaxElems == 7
\* Largest tree of the wide family, which holds an element with three
\* daughters of which two are themselves bifurcations.
MaxWideElems == 8
\* Largest number of elements of an arbitrarily connected element list.
MaxTopoElems == 3
\* Largest element list, and largest node, given to calc_terminal_branch
\* besides the trees.
MaxTermElems == 3
MaxTermNode == 2
\* Largest number of cells of a sampling grid along one axis.
MaxCells == 2
\* Largest number of terminals given to the binner.
MaxTerminals == 1
\* Largest semi-axis of the ellipsoid given to ellipse_volume_to_grid.
MaxRadius == 3
\* Largest quadrature resolution given to ellipse_volume_to_grid.
MaxTestPoints == 3
\* Square roots are rounded down to a whole number of 1/FixedPoint.
FixedPoint == 100
\* Largest number of elements given to tree_statistics.
MaxStatElems == 3
\* Largest number of branch elements given to cal_br_vol_samp_grid, and
\* largest coordinate of a branch node.
MaxBranches == 2
MaxCoord == 1
\* terminals given to terminals_in_sampling_grid
MaxSlowTerminals == 2

VARIABLES
    pc,               \* position of the running function
    ne,               \* loop index of the running function
    \* the tree: arguments and connectivity
    elems,            \* elems[ne] = [id, start node, end node]
    num_nodes,        \* len(node_loc)
    elem_upstream,    \* [count, upstream ids..., 0 padding] per element
    elem_downstream,  \* [count, downstream ids..., 0 padding] per element
    \* evaluate_orders
    generation, horsfield, strahler, maxgen,
    \* calc_terminal_branch
    num_term, terminal_branches, terminal_nodes,
    \* the sampling grid and the ellipsoid
    rectangular_mesh, \* [nodes, elems, total_elems]
    radii,            \* [x_radius, y_radius, z_radius]
    \* terminals_in_sampling_grid_fast
    node_loc, terminal_list, terminals_in_grid, terminal_elems, nt,
    \* ellipse_volume_to_grid
    num_test_points, pl_vol_in_grid, non_empty_loc, non_empty_count,
    \* cal_br_vol_samp_grid
    branch_node, branch_el, p_vol, total_vol_samp_gr, br_num_in_samp_gr,
    vol_each_br, b_count, total_br_vol,
    \* terminals_in_sampling_grid
    placenta_list, terminal_mapped, ne_i,
    \* tree_statistics
    radius, diameters, lengths, N, nbranches, branches,
    bound_names       \* the local names bound so far

treeVars == <<elems, num_nodes, elem_upstream, elem_downstream>>
orderVars == <<generation, horsfield, strahler, maxgen>>
termVars == <<num_term, terminal_branches, terminal_nodes>>
meshVars == <<rectangular_mesh, radii>>
binVars == <<node_loc, terminal_list, terminals_in_grid, terminal_elems, nt>>
ellVars == <<num_test_points, pl_vol_in_grid, non_empty_loc, non_empty_count>>
brVars == <<branch_node, branch_el, p_vol, total_vol_samp_gr,
            br_num_in_samp_gr, vol_each_br, b_count, total_br_vol>>
slowVars == <<placenta_list, terminal_mapped, ne_i>>
statsVars == <<radius, diameters, lengths, N, nbranches, branches,
              bound_names>>
gridVars == <<meshVars, binVars, ellVars, brVars, slowVars, statsVars>>
vars == <<pc, ne, treeVars, orderVars, termVars, gridVars>>

\* The value of a variable the running function does not have.
Unused == << >>

(***************************************************************************)
(* Helpers.                                                                *)
(***************************************************************************)
Max(a, b) == IF a >= b THEN a ELSE b

RECURSIVE SetSum(_, _)
SetSum(f, S) ==
    IF S = {} THEN 0
    ELSE LET x == CHOOSE y \in S : TRUE IN f[x] + SetSum(f, S \ {x})

\* np.zeros(n, dtype=int)
Zeros(n) == [k \in 0 .. n - 1 |-> 0]

\* The k-th smallest member of a set of integers, k = 1 .. Cardinality(S).
Nth(S, k) == CHOOSE x \in S : Cardinality({y \in S : y < x}) = k - 1

num_elems == Cardinality(DOMAIN elems)

(***************************************************************************)
(* pg_utilities.element_connectivity_1D.  Per element a row whose slot 0   *)
(* is a count and whose next slots list the connected element ids; unused  *)
(* slots hold 0 (the arrays start as zeros).  An element is upstream of    *)
(* another when its end node is the other's start node.                    *)
(***************************************************************************)
UpSet(el, e) == {e2 \in DOMAIN el : e2 # e /\ el[e2][2] = el[e][1]}
DownSet(el, e) == {e2 \in DOMAIN el : e2 # e /\ el[e2][1] = el[e][2]}

ConnRow(S, width) ==
    [k \in 0 .. width |->
        IF k = 0 THEN Cardinality(S)
        ELSE IF k <= Cardinality(S) THEN Nth(S, k) ELSE 0]

element_connectivity_1D(el) ==
    LET n == Cardinality(DOMAIN el) IN
    [elem_up   |-> [e \in DOMAIN el |-> ConnRow(UpSet(el, e), n)],
     elem_down |-> [e \in DOMAIN el |-> ConnRow(DownSet(el, e), n)]]

(***************************************************************************)
(* Inputs.  A tree numbered parent-before-child is given by the parent of  *)
(* each element but the first: element e runs from its parent's end node   *)
(* (node 0 for the inlet) to node e + 1.                                   *)
(***************************************************************************)
RECURSIVE ParentLists(_)
ParentLists(n) ==
    IF n <= 1 THEN {<< >>}
    ELSE {Append(p, q) : p \in ParentLists(n - 1), q \in 0 .. n - 2}

TreeElems(p) ==
    [e \in 0 .. Len(p) |->
        [k \in 0 .. 2 |->
            IF k = 0 THEN e
            ELSE IF k = 1 THEN (IF e = 0 THEN 0 ELSE p[e] + 1)
            ELSE e + 1]]

TreesUpTo(m) == UNION {{TreeElems(p) : p \in ParentLists(n)} : n \in 1 .. m}

\* Any list of up to m elements between distinct nodes 0 .. top.
TopoElems(s) ==
    [e \in 0 .. Len(s) - 1 |->
        [k \in 0 .. 2 |-> IF k = 0 THEN e ELSE s[e + 1][k]]]

TopoLists(m, top) ==
    LET pairs == {nn \in (0 .. top) \X (0 .. top) : nn[1] # nn[2]} IN
    UNION {{TopoElems(s) : s \in [1 .. n -> pairs]} : n \in 1 .. m}

NodesOf(el) == UNION {{el[e][1], el[e][2]} : e \in DOMAIN el}
LargestNode(el) == CHOOSE n \in NodesOf(el) : \A m \in NodesOf(el) : m <= n

(***************************************************************************)
(* evaluate_orders                                                         *)
(***************************************************************************)
\* A slip that counts every element below the inlet as a new generation.
GenerationOfPerElement(gen, up, down, e) ==
    LET ne0 == up[e][1] IN
    IF ne0 # 0
        THEN LET n_generation == gen[ne0] IN
             IF down[ne0][0] >= 1 THEN n_generation + 1
             ELSE gen[e]
        ELSE 1

\* Lines 78-89: the generation given to element e.
GenerationOf(gen, up, down, e) ==
    LET ne0 == up[e][1] IN
    IF ne0 # 0
        THEN LET n_generation == gen[ne0] IN
             IF down[ne0][0] = 1 THEN n_generation
             ELSE IF down[ne0][0] >= 2 THEN n_generation + 1
             ELSE gen[e]
        ELSE 1

\* Lines 95-98: a single daughter of generation 0 is no daughter.
ChildCount(gen, down, e) ==
    LET n_children == down[e][0] IN
    IF n_children = 1 /\ gen[down[e][1]] = 0 THEN 0 ELSE n_children

\* A slip that sums the daughters' Horsfield orders instead of keeping the
\* largest.
DaughterStepSum(hors, strah, ne2, acc) ==
    [n_horsfield   |-> hors[ne2] + acc.n_horsfield,
     strahler_add  |-> IF strah[ne2] < acc.temp_strahler THEN 0
                       ELSE IF strah[ne2] > acc.temp_strahler THEN 0
                       ELSE acc.strahler_add,
     temp_strahler |-> IF strah[ne2] > acc.temp_strahler
                          THEN strah[ne2] ELSE acc.temp_strahler]

\* Lines 105-112: one iteration of the loop over the daughters; acc is
\* [n_horsfield, temp_strahler, strahler_add].
DaughterStep(hors, strah, ne2, acc) ==
    [n_horsfield   |-> IF hors[ne2] > acc.n_horsfield
                          THEN hors[ne2] ELSE acc.n_horsfield,
     strahler_add  |-> IF strah[ne2] < acc.temp_strahler THEN 0
                       ELSE IF strah[ne2] > acc.temp_strahler THEN 0
                       ELSE acc.strahler_add,
     temp_strahler |-> IF strah[ne2] > acc.temp_strahler
                          THEN strah[ne2] ELSE acc.temp_strahler]

\* Lines 103-112: the loop over daughters noelem .. n_children.
RECURSIVE DaughterLoop(_, _, _, _, _, _)
DaughterLoop(hors, strah, down, e, noelem, acc) ==
    IF noelem > down[e][0] THEN acc
    ELSE DaughterLoop(hors, strah, down, e, noelem + 1,
                      DaughterStep(hors, strah, down[e][noelem], acc))

\* Line 113: the Horsfield order above a bifurcation.
BifurcationHorsfield(n_horsfield) == n_horsfield + 1

\* A slip that leaves strahler_add at 1 for a continuation.
ContinuationOrdersNoCopy(hors, strah, ne2) ==
    [n_horsfield |-> hors[ne2], temp_strahler |-> 0, strahler_add |-> 1]

\* Lines 115-117: an element with exactly one daughter ne2.
ContinuationOrders(hors, strah, ne2) ==
    [n_horsfield |-> hors[ne2], temp_strahler |-> 0, strahler_add |-> strah[ne2]]

\* Line 94 and lines 99-100: the values a terminal element keeps.
TerminalOrders(hors, e) ==
    [n_horsfield |-> Max(hors[e], 1), temp_strahler |-> 0, strahler_add |-> 1]

\* Lines 94-119: the orders given to element e: [horsfield, strahler].
OrdersOf(gen, hors, strah, down, e) ==
    LET n_children == ChildCount(gen, down, e)
        start == TerminalOrders(hors, e)
        res == IF n_children >= 2
                  THEN LET first == [start EXCEPT
                                        !.temp_strahler = strah[down[e][1]]]
                           acc == DaughterLoop(hors, strah, down, e, 1, first)
                       IN [acc EXCEPT !.n_horsfield =
                                          BifurcationHorsfield(acc.n_horsfield)]
               ELSE IF n_children = 1
                  THEN ContinuationOrders(hors, strah, down[e][1])
               ELSE start
    IN [horsfield |-> res.n_horsfield,
        strahler  |-> res.temp_strahler + res.strahler_add]

\* Lines 65-76: connectivity and the zeroed order arrays.
EvalConnect ==
    /\ pc = "start"
    /\ LET c == element_connectivity_1D(elems) IN
        /\ elem_upstream' = c.elem_up
        /\ elem_downstream' = c.elem_down
    /\ strahler' = Zeros(num_elems)
    /\ horsfield' = Zeros(num_elems)
    /\ generation' = Zeros(num_elems)
    /\ maxgen' = 1
    /\ ne' = 0
    /\ pc' = "generation"
    /\ UNCHANGED <<elems, num_nodes, termVars, gridVars>>

\* Lines 77-90: one iteration of the forward loop.
GenerationStep ==
    /\ pc = "generation"
    /\ LET g == GenerationOf(generation, elem_upstream, elem_downstream, ne) IN
        /\ generation' = [generation EXCEPT ![ne] = g]
        /\ maxgen' = Max(maxgen, g)
    /\ IF ne + 1 < num_elems
          THEN pc' = pc /\ ne' = ne + 1
          ELSE pc' = "orders" /\ ne' = num_elems - 1
    /\ UNCHANGED <<treeVars, horsfield, strahler, termVars, gridVars>>

\* Lines 93-119: one iteration of the backward loop; line 121 after the last.
OrdersStep ==
    /\ pc = "orders"
    /\ LET o == OrdersOf(generation, horsfield, strahler, elem_downstream, ne) IN
        /\ horsfield' = [horsfield EXCEPT ![ne] = o.horsfield]
        /\ strahler' = [strahler EXCEPT ![ne] = o.strahler]
    /\ IF ne > 0
          THEN pc' = pc /\ ne' = ne - 1
          ELSE pc' = "done" /\ ne' = ne
    /\ UNCHANGED <<treeVars, generation, maxgen, termVars, gridVars>>

\* The variables of the functions that are not running.
NoOrders == generation = Unused /\ horsfield = Unused /\ strahler = Unused
               /\ maxgen = Unused
NoTerminals == num_term = Unused /\ terminal_branches = Unused
                  /\ terminal_nodes = Unused
NoMesh == rectangular_mesh = Unused /\ radii = Unused
NoBinning == node_loc = Unused /\ terminal_list = Unused
                /\ terminals_in_grid = Unused /\ terminal_elems = Unused
                /\ nt = Unused
NoEllipse == num_test_points = Unused /\ pl_vol_in_grid = Unused
                /\ non_empty_loc = Unused /\ non_empty_count = Unused
NoBranches == branch_node = Unused /\ branch_el = Unused /\ p_vol = Unused
                 /\ total_vol_samp_gr = Unused /\ br_num_in_samp_gr = Unused
                 /\ vol_each_br = Unused /\ b_count = Unused
                 /\ total_br_vol = Unused
NoSlow == placenta_list = Unused /\ terminal_mapped = Unused /\ ne_i = Unused
NoStats == radius = Unused /\ diameters = Unused /\ lengths = Unused
              /\ N = Unused /\ nbranches = Unused /\ branches = Unused
              /\ bound_names = Unused
NoGrid == NoMesh /\ NoBinning /\ NoEllipse /\ NoBranches /\ NoSlow /\ NoStats
NoTree == elems = Unused /\ num_nodes = Unused /\ elem_upstream = Unused
             /\ elem_downstream = Unused

\* A call with the element list drawn from inputs; node_loc holds the nodes
\* up to the largest one an element names, and up to extra more.
InitTree(inputs, extra) ==
    /\ pc = "start"
    /\ ne = 0
    /\ elems \in inputs
    /\ \E k \in 0 .. extra : num_nodes = LargestNode(elems) + 1 + k
    /\ elem_upstream = Unused
    /\ elem_downstream = Unused
    /\ NoOrders /\ NoTerminals /\ NoGrid

Init == InitTree(TreesUpTo(MaxElems), 0)

Next == EvalConnect \/ GenerationStep \/ OrdersStep

\* evaluate_orders on every tree numbered parent-before-child.
Spec == Init /\ [][Next]_vars

InitTopo == InitTree(TopoLists(MaxTopoElems, MaxTopoElems), 0)

\* evaluate_orders on every list of connected elements.
SpecTopo == InitTopo /\ [][Next]_vars

InitWide == InitTree(TreesUpTo(MaxWideElems), 0)

\* evaluate_orders on the wide family of trees.
SpecWide == InitWide /\ [][Next]_vars

(***************************************************************************)
(* The tree as the element list gives it, independent of the connectivity  *)
(* arrays the code reads.                                                  *)
(***************************************************************************)
Children(e) == DownSet(elems, e)
Parents(e) == UpSet(elems, e)
SetMax(S) == CHOOSE x \in S : \A y \in S : y <= x

\* More than one inlet, or an element with more than one upstream element.
MultipleInlets == Cardinality({e \in DOMAIN elems : Parents(e) = {}}) > 1
Reconvergent == \E e \in DOMAIN elems : Cardinality(Parents(e)) > 1

\* The backward loop has passed element e.
OrdersAssigned(e) == pc = "done" \/ (pc = "orders" /\ e > ne)

\* The number of terminal elements in the subtree rooted at e.
RECURSIVE SubtreeTerminals(_)
SubtreeTerminals(e) ==
    IF Children(e) = {} THEN 1
    ELSE SetSum([c \in Children(e) |-> SubtreeTerminals(c)], Children(e))

(***************************************************************************)
(* C1.  On a tree numbered parent-before-child every element without an    *)
(* upstream element gets generation 1 and every other element gets its     *)
(* parent's generation, plus 1 when the parent has two or more daughters;  *)
(* the root bifurcating into two terminals gets generation [1,2,2].        *)
(***************************************************************************)
C1_GenerationRule ==
    pc = "done" =>
        /\ \A e \in DOMAIN elems :
              IF Parents(e) = {} THEN generation[e] = 1
              ELSE LET p == CHOOSE x \in Parents(e) : TRUE IN
                   generation[e] =
                       IF Cardinality(Children(p)) = 1
                          THEN generation[p] ELSE generation[p] + 1
        /\ (elems = TreeElems(<<0, 0>>) =>
               generation = [e \in 0 .. 2 |-> IF e = 0 THEN 1 ELSE 2])

(***************************************************************************)
(* C2.  Every element with two or more daughters gets the largest Strahler *)
(* order m of its daughters, plus 1 when at least two daughters have       *)
(* order m.                                                                *)
(***************************************************************************)
C2_StrahlerRule ==
    \A e \in DOMAIN elems :
        (OrdersAssigned(e) /\ Cardinality(Children(e)) >= 2) =>
            LET m == SetMax({strahler[c] : c \in Children(e)})
                top == {c \in Children(e) : strahler[c] = m}
            IN strahler[e] = IF Cardinality(top) >= 2 THEN m + 1 ELSE m

(***************************************************************************)
(* C3.  A terminal element gets horsfield = strahler = 1, an element with  *)
(* one daughter gets its daughter's horsfield and strahler, and an element *)
(* with two or more daughters gets horsfield 1 + the largest horsfield of  *)
(* its daughters.                                                          *)
(***************************************************************************)
C3_HorsfieldRule ==
    \A e \in DOMAIN elems :
        OrdersAssigned(e) =>
            LET D == Children(e) IN
            /\ (D = {} => horsfield[e] = 1 /\ strahler[e] = 1)
            /\ (Cardinality(D) = 1 =>
                   \A c \in D : /\ horsfield[e] = horsfield[c]
                                /\ strahler[e] = strahler[c])
            /\ (Cardinality(D) >= 2 =>
                   horsfield[e] = 1 + SetMax({horsfield[c] : c \in D}))

\* A finished run on a tree with a terminal, a continuation whose daughter
\* has strahler 2, a bifurcation and a trifurcation.
C3_Witness ==
    /\ pc = "done"
    /\ \E e \in DOMAIN elems :
          Cardinality(Children(e)) = 1 /\ strahler[e] = 2 /\ horsfield[e] = 2
    /\ \E e \in DOMAIN elems : Cardinality(Children(e)) = 2
    /\ \E e \in DOMAIN elems : Cardinality(Children(e)) = 3 /\ horsfield[e] = 3

(***************************************************************************)
(* C4.  In the result every element has                                    *)
(* 1 <= strahler <= horsfield <= number of terminals of its subtree.       *)
(***************************************************************************)
C4_OrderBounds ==
    pc = "done" =>
        \A e \in DOMAIN elems :
            /\ 1 <= strahler[e]
            /\ strahler[e] <= horsfield[e]
            /\ horsfield[e] <= SubtreeTerminals(e)

\* A finished run with an element where both inequalities are strict and
\* one where they are equalities above a bifurcation.
C4_Witness ==
    /\ pc = "done"
    /\ \E e \in DOMAIN elems :
          /\ 1 < strahler[e]
          /\ strahler[e] < horsfield[e]
          /\ horsfield[e] < SubtreeTerminals(e)
    /\ \E e \in DOMAIN elems :
          /\ strahler[e] = 2 /\ horsfield[e] = 2 /\ SubtreeTerminals(e) = 2

(***************************************************************************)
(* C5.  evaluate_orders returns no order arrays when the connectivity has  *)
(* more than one element without an upstream element or an element with    *)
(* more than one upstream element.                                         *)
(***************************************************************************)
C5_InvalidTopologyRejected ==
    (MultipleInlets \/ Reconvergent) => pc # "done"

(***************************************************************************)
(* calc_terminal_branch                                                    *)
(***************************************************************************)
\* A slip that tests the first downstream slot instead of the count.
IsTerminalBySlot(down, e) == down[e][1] = 0

\* Line 46: no downstream element.
IsTerminal(down, e) == down[e][0] = 0

\* np.resize(a, n): the first n entries of a, a repeated when n is larger.
Resize(a, n) ==
    LET len == Cardinality(DOMAIN a) IN [k \in 0 .. n - 1 |-> a[k % len]]

\* Lines 37-44: connectivity and the zeroed result arrays.
TermConnect ==
    /\ pc = "start"
    /\ LET elem_cnct == element_connectivity_1D(elems) IN
        /\ elem_upstream' = elem_cnct.elem_up
        /\ elem_downstream' = elem_cnct.elem_down
    /\ terminal_branches' = Zeros(num_elems)
    /\ terminal_nodes' = Zeros(num_nodes)
    /\ num_term' = 0
    /\ ne' = 0
    /\ pc' = "terminals"
    /\ UNCHANGED <<elems, num_nodes, orderVars, gridVars>>

\* Lines 45-49: one iteration of the loop.  Line 48 raises IndexError when
\* terminal_nodes, which has one slot per node, is full.
TermStep ==
    /\ pc = "terminals"
    /\ IF IsTerminal(elem_downstream, ne)
          THEN /\ terminal_branches' = [terminal_branches EXCEPT ![num_term] = ne]
               /\ IF num_term \in DOMAIN terminal_nodes
                     THEN /\ terminal_nodes' =
                                [terminal_nodes EXCEPT ![num_term] = elems[ne][2]]
                          /\ num_term' = num_term + 1
                          /\ IF ne + 1 < num_elems
                                THEN pc' = pc /\ ne' = ne + 1
                                ELSE pc' = "resize" /\ ne' = ne
                     ELSE /\ pc' = "raised"
                          /\ UNCHANGED <<terminal_nodes, num_term, ne>>
          ELSE /\ IF ne + 1 < num_elems
                     THEN pc' = pc /\ ne' = ne + 1
                     ELSE pc' = "resize" /\ ne' = ne
               /\ UNCHANGED termVars
    /\ UNCHANGED <<treeVars, orderVars, gridVars>>

\* Lines 51-56: the compacted lists are returned.
TermReturn ==
    /\ pc = "resize"
    /\ terminal_branches' = Resize(terminal_branches, num_term)
    /\ terminal_nodes' = Resize(terminal_nodes, num_term)
    /\ pc' = "done"
    /\ UNCHANGED <<ne, num_term, treeVars, orderVars, gridVars>>

InitTerminal ==
    InitTree(TreesUpTo(MaxElems) \cup TopoLists(MaxTermElems, MaxTermNode), 1)

NextTerminal == TermConnect \/ TermStep \/ TermReturn

\* calc_terminal_branch on every tree and every list of connected elements.
SpecTerminal == InitTerminal /\ [][NextTerminal]_vars

(***************************************************************************)
(* C6.  calc_terminal_branch returns the elements whose downstream count   *)
(* is zero, each once, in increasing element order and with no trailing    *)
(* slots, the end node of each in terminal_nodes, and their number in      *)
(* total_terminals.                                                        *)
(***************************************************************************)
C6_TerminalList ==
    pc = "done" =>
        LET T == {e \in DOMAIN elems : elem_downstream[e][0] = 0}
            n == Cardinality(T)
        IN /\ num_term = n
           /\ DOMAIN terminal_branches = 0 .. n - 1
           /\ DOMAIN terminal_nodes = 0 .. n - 1
           /\ \A k \in 0 .. n - 1 :
                 /\ terminal_branches[k] = Nth(T, k + 1)
                 /\ terminal_nodes[k] = elems[terminal_branches[k]][2]

\* A returned list of several terminals that skips a non-terminal element
\* and is shorter than the element list.
C6_Witness ==
    /\ pc = "done"
    /\ num_term >= 2
    /\ num_term < num_elems
    /\ terminal_branches[1] > terminal_branches[0] + 1

(***************************************************************************)
(* The rectangular sampling mesh (generate_shapes.gen_rectangular_mesh):   *)
(* n[a] cells of size side[a] along axis a from origin[a], cells numbered  *)
(* x-fastest, each row of elems holding the cell id and its 8 corner       *)
(* nodes, corner 1 the minimum corner and corner 8 the maximum corner.     *)
(* Coordinates are integers: whole numbers of a fixed unit of length.      *)
(***************************************************************************)
Vec(x, y, z) == [a \in 0 .. 2 |-> IF a = 0 THEN x ELSE IF a = 1 THEN y ELSE z]

MeshNode(n, i, j, k) == i + j * (n[0] + 1) + k * (n[0] + 1) * (n[1] + 1)

gen_rectangular_mesh(origin, side, n) ==
    LET nn == (n[0] + 1) * (n[1] + 1) * (n[2] + 1)
        nc == n[0] * n[1] * n[2]
        I(q, m) == q % m
        J(q, m, l) == (q \div m) % l
        K(q, m, l) == q \div (m * l)
    IN [nodes |-> [q \in 0 .. nn - 1 |->
                     Vec(origin[0] + I(q, n[0] + 1) * side[0],
                         origin[1] + J(q, n[0] + 1, n[1] + 1) * side[1],
                         origin[2] + K(q, n[0] + 1, n[1] + 1) * side[2])],
        elems |-> [c \in 0 .. nc - 1 |->
                     [m \in 0 .. 8 |->
                        IF m = 0 THEN c
                        ELSE MeshNode(n, I(c, n[0]) + ((m - 1) % 2),
                                         J(c, n[0], n[1]) + (((m - 1) \div 2) % 2),
                                         K(c, n[0], n[1]) + ((m - 1) \div 4))]],
        total_elems |-> nc]

Column(nodes, a) == {nodes[q][a] : q \in DOMAIN nodes}
SetMin(S) == CHOOSE x \in S : \A y \in S : x <= y
Largest(S) == CHOOSE x \in S : \A y \in S : y <= x
Len0(a) == Cardinality(DOMAIN a)

\* row[1:4]
Slice14(row) == [a \in 0 .. 2 |-> row[a + 1]]

\* np.floor(a / b) for b > 0
FloorDiv(a, b) == a \div b

(***************************************************************************)
(* terminals_in_sampling_grid_fast                                         *)
(***************************************************************************)
\* Lines 233-246: the frame of the grid read off the mesh: start and cell
\* size per axis and the number of cells per axis.
TerminalGridFrame(mesh) ==
    LET el == mesh.elems
        nodes == mesh.nodes
        startx == SetMin(Column(nodes, 0))
        xside == nodes[el[0][8]][0] - nodes[el[0][1]][0]
        endx == Largest(Column(nodes, 0))
        starty == SetMin(Column(nodes, 1))
        yside == nodes[el[0][8]][1] - nodes[el[0][1]][1]
        endy == Largest(Column(nodes, 1))
        startz == SetMin(Column(nodes, 2))
        zside == nodes[el[0][8]][2] - nodes[el[0][1]][2]
        endz == Largest(Column(nodes, 2))
    IN [start |-> <<startx, starty, startz>>,
        side |-> <<xside, yside, zside>>,
        nelem_x |-> (endx - startx) \div xside,
        nelem_y |-> (endy - starty) \div yside,
        nelem_z |-> (endz - startz) \div zside]

\* A slip that strides the y index by the number of cells along y.
TerminalCellIndexSwapped(g, coord_terminal) ==
    LET xelem_num == FloorDiv(coord_terminal[0] - g.start[1], g.side[1])
        yelem_num == FloorDiv(coord_terminal[1] - g.start[2], g.side[2])
        zelem_num == FloorDiv(coord_terminal[2] - g.start[3], g.side[3])
    IN xelem_num + yelem_num * g.nelem_y + zelem_num * (g.nelem_x * g.nelem_y)

\* Lines 250-253: the cell of a coordinate on the grid of frame g.
TerminalCellIndex(g, coord_terminal) ==
    LET xelem_num == FloorDiv(coord_terminal[0] - g.start[1], g.side[1])
        yelem_num == FloorDiv(coord_terminal[1] - g.start[2], g.side[2])
        zelem_num == FloorDiv(coord_terminal[2] - g.start[3], g.side[3])
    IN xelem_num + yelem_num * g.nelem_x + zelem_num * (g.nelem_x * g.nelem_y)

\* a[i] as Python indexes an array of length len: a negative i counts from
\* the end, and an i outside -len .. len - 1 raises IndexError.
InRange(i, len) == -len <= i /\ i < len
PyIndex(i, len) == IF i < 0 THEN i + len ELSE i

\* Lines 230-232: the zeroed result arrays.
BinStart ==
    /\ pc = "start"
    /\ terminals_in_grid' = Zeros(Len0(rectangular_mesh.elems))
    /\ terminal_elems' = Zeros(terminal_list.total_terminals)
    /\ nt' = 0
    /\ pc' = IF terminal_list.total_terminals > 0 THEN "binning" ELSE "done"
    /\ UNCHANGED <<ne, treeVars, orderVars, termVars, meshVars, slowVars, statsVars, node_loc,
                   terminal_list, ellVars, brVars>>

\* Lines 248-255: one terminal; line 256 after the last.
BinStep ==
    /\ pc = "binning"
    /\ LET coord_terminal == Slice14(node_loc[terminal_list.terminal_nodes[nt]])
           nelem == TerminalCellIndex(TerminalGridFrame(rectangular_mesh),
                                      coord_terminal)
           len == Len0(terminals_in_grid)
       IN IF InRange(nelem, len)
             THEN /\ terminals_in_grid' =
                        [terminals_in_grid EXCEPT ![PyIndex(nelem, len)] = @ + 1]
                  /\ terminal_elems' = [terminal_elems EXCEPT ![nt] = nelem]
                  /\ nt' = nt + 1
                  /\ pc' = IF nt + 1 < terminal_list.total_terminals
                              THEN pc ELSE "done"
             ELSE /\ pc' = "raised"
                  /\ UNCHANGED <<terminals_in_grid, terminal_elems, nt>>
    /\ UNCHANGED <<ne, treeVars, orderVars, termVars, meshVars, slowVars, statsVars, node_loc,
                   terminal_list, ellVars, brVars>>

\* Centre and minimum corner of cell c.
CellMin(mesh, c) == mesh.nodes[mesh.elems[c][1]]
CellMax(mesh, c) == mesh.nodes[mesh.elems[c][8]]
Centroid(mesh, c) ==
    [a \in 0 .. 2 |-> (CellMin(mesh, c)[a] + CellMax(mesh, c)[a]) \div 2]

\* Grids of up to MaxCells cells per axis, with equal and with unequal
\* even cell sizes, from the origin and from a corner away from it.
CellCounts == {Vec(i, j, k) : i, j, k \in 1 .. MaxCells}
GridFrames == {<<Vec(0, 0, 0), Vec(2, 2, 2)>>, <<Vec(-4, -2, -6), Vec(2, 4, 6)>>}

\* node_loc rows [id, x, y, z]: node 0 at the grid's minimum corner, then
\* one node per terminal; the terminals are listed last node first.
InitGrid ==
    /\ pc = "start"
    /\ ne = Unused
    /\ NoTree /\ NoOrders /\ NoTerminals /\ NoSlow /\ NoStats /\ NoEllipse /\ NoBranches
    /\ radii = Unused
    /\ \E f \in GridFrames, n \in CellCounts :
          rectangular_mesh = gen_rectangular_mesh(f[1], f[2], n)
    /\ \E t \in 1 .. MaxTerminals :
          /\ \E pts \in [1 .. t -> UNION {{Centroid(rectangular_mesh, c),
                                            CellMin(rectangular_mesh, c),
                                            CellMax(rectangular_mesh, c)} :
                                             c \in DOMAIN rectangular_mesh.elems}] :
                node_loc = [q \in 0 .. t |->
                              [m \in 0 .. 3 |->
                                 IF m = 0 THEN q
                                 ELSE IF q = 0
                                    THEN CellMin(rectangular_mesh, 0)[m - 1]
                                    ELSE pts[q][m - 1]]]
          /\ terminal_list = [total_terminals |-> t,
                              terminal_nodes |-> [k \in 0 .. t - 1 |-> t - k]]
    /\ terminals_in_grid = Unused
    /\ terminal_elems = Unused
    /\ nt = 0

NextGrid == BinStart \/ BinStep

\* terminals_in_sampling_grid_fast on terminals at cell centres and corners.
SpecGrid == InitGrid /\ [][NextGrid]_vars

(***************************************************************************)
(* pg_utilities.check_in_ellipsoid and check_on_ellipsoid: strictly inside *)
(* and exactly on the surface (x/rx)^2 + (y/ry)^2 + (z/rz)^2 = 1, cleared  *)
(* of its denominators.                                                    *)
(***************************************************************************)
EllipsoidLhs(x, y, z, rx, ry, rz) ==
    x * x * ry * ry * rz * rz + y * y * rx * rx * rz * rz + z * z * rx * rx * ry * ry
EllipsoidRhs(rx, ry, rz) == rx * rx * ry * ry * rz * rz

check_in_ellipsoid(x, y, z, rx, ry, rz) ==
    EllipsoidLhs(x, y, z, rx, ry, rz) < EllipsoidRhs(rx, ry, rz)
check_on_ellipsoid(x, y, z, rx, ry, rz) ==
    EllipsoidLhs(x, y, z, rx, ry, rz) = EllipsoidRhs(rx, ry, rz)

(***************************************************************************)
(* ellipse_volume_to_grid.  Volumes are whole numbers of                   *)
(* 1 / VolumeUnits(num_test_points) cubed units of length.                 *)
(***************************************************************************)
Abs(x) == IF x < 0 THEN -x ELSE x

\* The largest r in lo .. hi with r * r <= m.
RECURSIVE SqrtBetween(_, _, _)
SqrtBetween(m, lo, hi) ==
    IF lo >= hi THEN lo
    ELSE LET mid == (lo + hi + 1) \div 2 IN
         IF mid * mid <= m THEN SqrtBetween(m, mid, hi)
         ELSE SqrtBetween(m, lo, mid - 1)
Isqrt(m) == SqrtBetween(m, 0, m)

\* Trapezoid sums carry a factor 1/2 per axis and 1/(n - 1) per axis, the
\* heights a factor 1/FixedPoint.
VolumeUnits(n) == 4 * FixedPoint * (n - 1) * (n - 1)

RECURSIVE SumTo(_, _)
SumTo(f, k) == IF k < 0 THEN 0 ELSE f[k] + SumTo(f, k - 1)

\* Lines 328-335: the corners of cell c inside or on the ellipsoid.
CornersInRange(mesh, r, c) ==
    {nod \in 1 .. 8 :
        LET q == mesh.nodes[mesh.elems[c][nod]] IN
        \/ check_in_ellipsoid(q[0], q[1], q[2], r.x_radius, r.y_radius, r.z_radius)
        \/ check_on_ellipsoid(q[0], q[1], q[2], r.x_radius, r.y_radius, r.z_radius)}

\* Lines 361-378 (and 380-398): the quadrature of the surface height over
\* the footprint of a cell, between heights startz and endz, less the block
\* below startz.  Sample i along an axis lies at (lo*(n-1) + i*(hi-lo))/(n-1).
Quadrature(r, n, startx, endx, starty, endy, startz, endz) ==
    LET d == n - 1
        X(i) == startx * d + i * (endx - startx)
        Y(i) == starty * d + i * (endy - starty)
        den == d * d * r.x_radius * r.x_radius * r.y_radius * r.y_radius
        \* zv[i, j] * den before the square root, at x = xVector[j], y = yVector[i]
        num(i, j) == r.z_radius * r.z_radius
                        * (den - X(j) * X(j) * r.y_radius * r.y_radius
                               - Y(i) * Y(i) * r.x_radius * r.x_radius)
        \* lines 367-373: the height in 1/FixedPoint, clamped to startz .. endz
        zv == [i \in 0 .. d |-> [j \in 0 .. d |->
                 LET root == IF num(i, j) <= startz * startz * den
                                THEN startz * FixedPoint
                                ELSE Isqrt((num(i, j) * FixedPoint * FixedPoint)
                                               \div den)
                 IN IF root > endz * FixedPoint THEN endz * FixedPoint
                    ELSE IF root < startz * FixedPoint THEN startz * FixedPoint
                    ELSE root]]
        \* lines 375-376: np.trapz(zv[:, i], xVector), times 2 * FixedPoint * d
        intermediate == [i \in 0 .. d |->
                           SumTo([k \in 0 .. d - 1 |->
                                    (zv[k][i] + zv[k + 1][i]) * (endx - startx)],
                                 d - 1)]
        \* line 377: np.trapz(intermediate, yVector), in volume units
        Value1 == SumTo([i \in 0 .. d - 1 |->
                           (intermediate[i] + intermediate[i + 1]) * (endy - starty)],
                        d - 1)
    IN Value1 - startz * (endx - startx) * (endy - starty) * VolumeUnits(n)

\* Lines 349-398: the volume under the surface in a cell the surface cuts.
EdgeCellVolume(mesh, r, n, c) ==
    LET lo == mesh.nodes[mesh.elems[c][1]]
        hi == mesh.nodes[mesh.elems[c][8]]
    IN IF lo[2] < 0 /\ hi[2] <= 0
          THEN Quadrature(r, n, lo[0], hi[0], lo[1], hi[1], Abs(hi[2]), Abs(lo[2]))
       ELSE IF lo[2] < 0 /\ hi[2] > 0
          THEN Quadrature(r, n, lo[0], hi[0], lo[1], hi[1], 0, Abs(lo[2]))
                 + Quadrature(r, n, lo[0], hi[0], lo[1], hi[1], 0, hi[2])
       ELSE Quadrature(r, n, lo[0], hi[0], lo[1], hi[1], lo[2], hi[2])

\* Lines 339-340: the volume of a whole cell.
WholeCellVolume(mesh, n, c) ==
    LET lo == mesh.nodes[mesh.elems[c][1]]
        hi == mesh.nodes[mesh.elems[c][8]]
    IN (hi[0] - lo[0]) * (hi[1] - lo[1]) * (hi[2] - lo[2]) * VolumeUnits(n)

\* Lines 305-316: the zeroed result arrays.
EllipseStart ==
    /\ pc = "start"
    /\ pl_vol_in_grid' = Zeros(rectangular_mesh.total_elems)
    /\ non_empty_loc' = Zeros(rectangular_mesh.total_elems)
    /\ non_empty_count' = 0
    /\ ne' = 0
    /\ pc' = "cells"
    /\ UNCHANGED <<treeVars, orderVars, termVars, meshVars, slowVars, statsVars, binVars,
                   num_test_points, brVars>>

\* Lines 318-398: one cell of the grid.
EllipseCell ==
    /\ pc = "cells"
    /\ LET count_in_range == Cardinality(CornersInRange(rectangular_mesh, radii, ne))
       IN IF count_in_range = 8
             THEN /\ non_empty_loc' = [non_empty_loc EXCEPT ![non_empty_count] = ne]
                  /\ non_empty_count' = non_empty_count + 1
                  /\ pl_vol_in_grid' =
                        [pl_vol_in_grid EXCEPT ![ne] =
                            WholeCellVolume(rectangular_mesh, num_test_points, ne)]
          ELSE IF count_in_range = 0
             THEN /\ pl_vol_in_grid' = [pl_vol_in_grid EXCEPT ![ne] = 0]
                  /\ UNCHANGED <<non_empty_loc, non_empty_count>>
          ELSE /\ non_empty_loc' = [non_empty_loc EXCEPT ![non_empty_count] = ne]
               /\ non_empty_count' = non_empty_count + 1
               /\ pl_vol_in_grid' =
                     [pl_vol_in_grid EXCEPT ![ne] =
                         EdgeCellVolume(rectangular_mesh, radii, num_test_points, ne)]
    /\ IF ne + 1 < Len0(rectangular_mesh.elems)
          THEN pc' = pc /\ ne' = ne + 1
          ELSE pc' = "resize" /\ ne' = ne
    /\ UNCHANGED <<treeVars, orderVars, termVars, meshVars, slowVars, statsVars, binVars,
                   num_test_points, brVars>>

\* Lines 400-404: the compacted list of non-empty cells is returned.
EllipseReturn ==
    /\ pc = "resize"
    /\ non_empty_loc' = Resize(non_empty_loc, non_empty_count)
    /\ pc' = "done"
    /\ UNCHANGED <<ne, treeVars, orderVars, termVars, meshVars, slowVars, statsVars, binVars,
                   num_test_points, pl_vol_in_grid, non_empty_count, brVars>>

\* Grids centred on the ellipsoid's centre, with cells of 2 or 4 units per
\* axis, and semi-axes of 1 .. MaxRadius units.
EllipseSides == {Vec(i, j, k) : i, j, k \in {2, 4}}
CentredMesh(side, n) ==
    gen_rectangular_mesh([a \in 0 .. 2 |-> -((n[a] * side[a]) \div 2)], side, n)

InitEllipse ==
    /\ pc = "start"
    /\ ne = 0
    /\ NoTree /\ NoOrders /\ NoTerminals /\ NoSlow /\ NoStats /\ NoBinning /\ NoBranches
    /\ \E side \in EllipseSides, n \in CellCounts :
          rectangular_mesh = CentredMesh(side, n)
    /\ \E rx, ry, rz \in 1 .. MaxRadius :
          radii = [x_radius |-> rx, y_radius |-> ry, z_radius |-> rz]
    /\ num_test_points \in 2 .. MaxTestPoints
    /\ pl_vol_in_grid = Unused
    /\ non_empty_loc = Unused
    /\ non_empty_count = 0

NextEllipse == EllipseStart \/ EllipseCell \/ EllipseReturn

\* ellipse_volume_to_grid on centred grids.
SpecEllipse == InitEllipse /\ [][NextEllipse]_vars

(***************************************************************************)
(* cal_br_vol_samp_grid.  Node and grid coordinates are whole units of     *)
(* length; sample points are whole numbers of 1/LengthUnit, a unit in      *)
(* which r, interval and the steps of the three linspace calls are whole.  *)
(* Branch elements are parallel to an axis, so that the angle to the x     *)
(* axis is 0, 90 or 180 degrees and the rotation has whole entries.        *)
(***************************************************************************)
LengthUnit == 6300
\* Line 448: r = 0.1
r == LengthUnit \div 10
\* Line 449: interval = 0.01
interval == LengthUnit \div 100
\* Line 450: points = 8
points == 8
\* Line 458: 10 points along the length
along == 10
\* r in tenths of a unit of length, the unit of the diameter variable
RadiusTenths == r \div (LengthUnit \div 10)

Sub(u, v) == [a \in 0 .. 2 |-> u[a] - v[a]]
Add(u, v) == [a \in 0 .. 2 |-> u[a] + v[a]]
Scale(m, u) == [a \in 0 .. 2 |-> m * u[a]]
Dot(u, v) == u[0] * v[0] + u[1] * v[1] + u[2] * v[2]
Cross(u, v) == Vec(u[1] * v[2] - u[2] * v[1],
                   u[2] * v[0] - u[0] * v[2],
                   u[0] * v[1] - u[1] * v[0])
\* np.linalg.norm of a vector parallel to an axis
Norm(u) == Abs(u[0]) + Abs(u[1]) + Abs(u[2])
AxisParallel(u) == Cardinality({a \in 0 .. 2 : u[a] # 0}) = 1

\* Lines 452-453: the angle between the x axis and N2 - N1, in degrees.
angle_N1N2(N1, N2) ==
    LET dir == Sub(N2, N1) IN
    IF dir[0] > 0 THEN 0 ELSE IF dir[0] < 0 THEN 180 ELSE 90

\* Lines 461-463: np.linspace(-r, r, points)
yp == [k \in 0 .. points - 1 |-> -r + (k * 2 * r) \div (points - 1)]

\* Lines 465-477: the points of the 8 x 8 mesh within r of the axis, in the
\* order of the two loops: entry [y, z] with y = yp[b], z = yp[a].
CrossSectionFrom(k) ==
    LET a == k \div points
        b == k % points
    IN IF yp[b] * yp[b] + yp[a] * yp[a] <= r * r THEN <<yp[b], yp[a]>> ELSE << >>

RECURSIVE CrossSectionLoop(_, _)
CrossSectionLoop(k, acc) ==
    IF k = points * points THEN acc
    ELSE CrossSectionLoop(k + 1,
            IF CrossSectionFrom(k) = << >> THEN acc
            ELSE Append(acc, CrossSectionFrom(k)))

dp_cross_section == CrossSectionLoop(0, << >>)
counter == Len(dp_cross_section)

\* Line 458: np.linspace(interval, length_br, 10), length_br in units.
dp_along_length(length_br) ==
    [c \in 0 .. along - 1 |->
        interval + (c * (length_br * LengthUnit - interval)) \div (along - 1)]

\* Lines 478-485: the points of the cylinder along the x axis, one layer of
\* the cross-section per point along the length.
dp_whole_br(length_br) ==
    [q \in 0 .. along * counter - 1 |->
        Vec(dp_along_length(length_br)[q \div counter],
            dp_cross_section[(q % counter) + 1][1],
            dp_cross_section[(q % counter) + 1][2])]

\* Lines 489-496: Rodrigues' formula for a quarter turn about the unit
\* vector axis_rot (cos = 0, sin = 1).
Rodrigues(axis_rot, v) == Add(Cross(axis_rot, v), Scale(Dot(axis_rot, v), axis_rot))

\* Lines 454-455 and 489: the unit vector along x cross (N2 - N1).
axis_rot(N1, N2) ==
    LET c == Cross(Vec(1, 0, 0), Sub(N2, N1)) IN
    [a \in 0 .. 2 |-> IF c[a] > 0 THEN 1 ELSE IF c[a] < 0 THEN -1 ELSE 0]

\* Lines 498-518: the sample points of the element from N1 to N2, as the
\* sequence of the columns of dp_whole_br_new.
datapoints(N1, N2) ==
    LET length_br == Norm(Sub(N2, N1))
        cyl == dp_whole_br(length_br)
        angle == angle_N1N2(N1, N2)
        k == axis_rot(N1, N2)
        column(q) ==
          IF angle = 0
             THEN Vec(-cyl[q][0] + N2[0] * LengthUnit,
                      cyl[q][1] + N2[1] * LengthUnit,
                      cyl[q][2] + N2[2] * LengthUnit)
          ELSE IF angle = 180
             THEN Vec(cyl[q][0] + N2[0] * LengthUnit,
                      cyl[q][1] + N2[1] * LengthUnit,
                      cyl[q][2] + N2[2] * LengthUnit)
          ELSE Add(Rodrigues(k, cyl[q]), Scale(LengthUnit, N1))
    IN SubSeq([q \in 1 .. along * counter |-> column(q - 1)], 1, along * counter)

\* Lines 526-539: the frame of the grid read off the mesh.
BranchGridFrame(mesh) ==
    LET el == mesh.elems
        nodes == mesh.nodes
        startx == SetMin(Column(nodes, 0))
        xside == nodes[el[0][8]][0] - nodes[el[0][1]][0]
        endx == Largest(Column(nodes, 0))
        starty == SetMin(Column(nodes, 1))
        yside == nodes[el[0][8]][1] - nodes[el[0][1]][1]
        endy == Largest(Column(nodes, 1))
        startz == SetMin(Column(nodes, 2))
        zside == nodes[el[0][8]][2] - nodes[el[0][1]][2]
        endz == Largest(Column(nodes, 2))
    IN [start |-> <<startx, starty, startz>>,
        side |-> <<xside, yside, zside>>,
        nelem_x |-> (endx - startx) \div xside,
        nelem_y |-> (endy - starty) \div yside,
        nelem_z |-> (endz - startz) \div zside]

\* Lines 542-546: the cell of a sample point on the grid of frame g.
BranchCellIndex(g, coord_datapoints) ==
    LET xelem_num == FloorDiv(coord_datapoints[0] - g.start[1] * LengthUnit,
                              g.side[1] * LengthUnit)
        yelem_num == FloorDiv(coord_datapoints[1] - g.start[2] * LengthUnit,
                              g.side[2] * LengthUnit)
        zelem_num == FloorDiv(coord_datapoints[2] - g.start[3] * LengthUnit,
                              g.side[3] * LengthUnit)
    IN xelem_num + yelem_num * g.nelem_x + zelem_num * (g.nelem_x * g.nelem_y)

\* Lines 541-546: the cell number nelem of each sample point.
CellNumbers(g, dps) ==
    SubSeq([q \in 1 .. Len(dps) |-> BranchCellIndex(g, dps[q])], 1, Len(dps))

\* A slip that marks the cells that hold a sample point instead of counting
\* the points.
BinPointsOnce(nelem, total_elems) ==
    [c \in 0 .. total_elems - 1 |->
        IF \E q \in DOMAIN nelem : PyIndex(nelem[q], total_elems) = c
           THEN 1 ELSE 0]

\* Line 547: points_in_grid after the loop over the sample points, one more
\* in cell nelem for each point (a negative nelem counts from the end).
BinPoints(nelem, total_elems) ==
    [c \in 0 .. total_elems - 1 |->
        Cardinality({q \in DOMAIN nelem : PyIndex(nelem[q], total_elems) = c})]

\* Line 547 raises IndexError for a point whose cell number is no index.
AllPointsIndexed(nelem, total_elems) ==
    \A q \in DOMAIN nelem : InRange(nelem[q], total_elems)

\* Line 457: the volume of the cylinder, pi * r^2 * length_br.  Volumes are
\* whole numbers of pi * r^2 / (LengthUnit * along * counter).
BranchVolume(N1, N2) == Norm(Sub(N2, N1)) * LengthUnit * along * counter

\* Lines 551-552: the share of the volume of each cell.
vol_samp_gr(points_in_grid, n_points, branch_vol) ==
    [c \in DOMAIN points_in_grid |-> (points_in_grid[c] * branch_vol) \div n_points]

\* Lines 438-444: the test that ends the run.
BranchOutside(N1, N2, rad) ==
    LET check_in_range_N1 == check_in_ellipsoid(N1[0], N1[1], N1[2],
                                 rad.x_radius, rad.y_radius, rad.z_radius)
        check_on_range_N1 == check_on_ellipsoid(N1[0], N1[1], N1[2],
                                 rad.x_radius, rad.y_radius, rad.z_radius)
        check_in_range_N2 == check_in_ellipsoid(N2[0], N2[1], N2[2],
                                 rad.x_radius, rad.y_radius, rad.z_radius)
    IN \/ (check_in_range_N1 = FALSE /\ check_on_range_N1 = FALSE)
       \/ (check_in_range_N2 = FALSE /\ check_in_range_N2 = FALSE)

\* Lines 434-435: the end nodes of branch element e.
BranchN1(e) == Slice14(branch_node[branch_el[e][1]])
BranchN2(e) == Slice14(branch_node[branch_el[e][2]])

\* Lines 416-431: the zeroed result arrays.
BranchStart ==
    /\ pc = "start"
    /\ br_num_in_samp_gr' = Zeros(rectangular_mesh.total_elems)
    /\ vol_each_br' = Zeros(Len0(branch_el))
    /\ total_vol_samp_gr' =
          [c \in 0 .. rectangular_mesh.total_elems - 1 |-> [k \in 0 .. 1 |-> 0]]
    /\ b_count' = 0
    /\ ne' = 0
    /\ pc' = "branches"
    /\ UNCHANGED <<treeVars, orderVars, termVars, meshVars, slowVars, statsVars, binVars, ellVars,
                   branch_node, branch_el, p_vol, total_br_vol>>

\* Lines 433-561: one branch element.  The end nodes, the grid's frame and
\* the cell numbers of the sample points are each worked out once.
BranchStep ==
    /\ pc = "branches"
    /\ \E N1 \in {BranchN1(ne)}, N2 \in {BranchN2(ne)},
          g \in {BranchGridFrame(rectangular_mesh)} :
       LET total_elems == rectangular_mesh.total_elems
           branch_vol == BranchVolume(N1, N2)
       IN IF BranchOutside(N1, N2, radii)
             THEN /\ pc' = "exit_outside"
                  /\ UNCHANGED <<ne, total_vol_samp_gr, br_num_in_samp_gr,
                                 vol_each_br, b_count>>
          ELSE \E nelem \in {CellNumbers(g, datapoints(N1, N2))} :
               IF ~AllPointsIndexed(nelem, total_elems)
                  THEN /\ pc' = "raised"
                       /\ vol_each_br' = [vol_each_br EXCEPT ![ne] = branch_vol]
                       /\ b_count' = b_count + 1
                       /\ UNCHANGED <<ne, total_vol_samp_gr, br_num_in_samp_gr>>
               ELSE LET points_in_grid == BinPoints(nelem, total_elems)
                        share == vol_samp_gr(points_in_grid, Len(nelem), branch_vol)
                    IN /\ vol_each_br' = [vol_each_br EXCEPT ![ne] = branch_vol]
                       /\ b_count' = b_count + 1
                       /\ br_num_in_samp_gr' =
                             [c \in DOMAIN br_num_in_samp_gr |->
                                 br_num_in_samp_gr[c] + (IF share[c] # 0 THEN 1 ELSE 0)]
                       /\ total_vol_samp_gr' =
                             [c \in DOMAIN total_vol_samp_gr |->
                                 [k \in 0 .. 1 |->
                                    IF k = 0 THEN total_vol_samp_gr[c][0] + share[c]
                                    ELSE total_vol_samp_gr[c][1]
                                            + share[c] * RadiusTenths * 2]]
                       /\ IF ne + 1 < Len0(branch_el)
                             THEN pc' = pc /\ ne' = ne + 1
                             ELSE pc' = "countercheck" /\ ne' = ne
    /\ UNCHANGED <<treeVars, orderVars, termVars, meshVars, slowVars, statsVars, binVars, ellVars,
                   branch_node, branch_el, p_vol, total_br_vol>>

\* A slip that looks at the first cell only.
FirstCellOutside(occupancy, total) ==
    {i \in {0} : occupancy[i] = 0 /\ total[i][0] # 0}

\* Lines 564-565: the cells with branch volume and no ellipsoid volume.
CellsOutside(occupancy, total) ==
    {i \in DOMAIN total : occupancy[i] = 0 /\ total[i][0] # 0}

\* Lines 563-570: the countercheck against the ellipsoid's occupancy, and
\* the result.
BranchReturn ==
    /\ pc = "countercheck"
    /\ IF CellsOutside(p_vol.pl_vol_in_grid, total_vol_samp_gr) # {}
          THEN pc' = "exit_countercheck" /\ UNCHANGED total_br_vol
          ELSE /\ pc' = "done"
               /\ total_br_vol' = SumTo(vol_each_br, Len0(vol_each_br) - 1)
    /\ UNCHANGED <<ne, treeVars, orderVars, termVars, meshVars, slowVars, statsVars, binVars, ellVars,
                   branch_node, branch_el, p_vol, total_vol_samp_gr,
                   br_num_in_samp_gr, vol_each_br, b_count>>

\* The grids: 8 cells of 2 units around the ellipsoid, 4 cells of 1 unit
\* from the origin, 8 cells of unequal sizes, and one cell around it all.
BranchMeshes ==
    {gen_rectangular_mesh(Vec(-1, -1, -1), Vec(2, 2, 2), Vec(2, 2, 2)),
     gen_rectangular_mesh(Vec(0, 0, 0), Vec(1, 1, 1), Vec(2, 2, 1)),
     gen_rectangular_mesh(Vec(-1, -1, -1), Vec(1, 2, 4), Vec(4, 2, 1)),
     gen_rectangular_mesh(Vec(-3, -3, -3), Vec(6, 6, 6), Vec(1, 1, 1))}

\* Cell c of the grid overlaps the box around the ellipsoid.
OverlapsEllipsoid(mesh, rad, c) ==
    /\ CellMin(mesh, c)[0] < rad.x_radius /\ -rad.x_radius < CellMax(mesh, c)[0]
    /\ CellMin(mesh, c)[1] < rad.y_radius /\ -rad.y_radius < CellMax(mesh, c)[1]
    /\ CellMin(mesh, c)[2] < rad.z_radius /\ -rad.z_radius < CellMax(mesh, c)[2]

\* The occupancy given as p_vol: the cells that overlap the box around the
\* ellipsoid occupied, no cell occupied, or the cells with a corner inside
\* or on the ellipsoid occupied (as ellipse_volume_to_grid finds them).
Occupancies(mesh, rad) ==
    {[pl_vol_in_grid |-> [c \in DOMAIN mesh.elems |->
                            IF OverlapsEllipsoid(mesh, rad, c) THEN 1 ELSE 0]],
     [pl_vol_in_grid |-> [c \in DOMAIN mesh.elems |-> 0]],
     [pl_vol_in_grid |-> [c \in DOMAIN mesh.elems |->
                            IF CornersInRange(mesh, rad, c) = {} THEN 0 ELSE 1]]}

\* Paths of m steps parallel to an axis between nodes <<x, y, z>> with
\* coordinates in 0 .. MaxCoord.
BranchPoints == (0 .. MaxCoord) \X (0 .. MaxCoord) \X (0 .. MaxCoord)
Aligned(u, v) == Cardinality({a \in 1 .. 3 : u[a] # v[a]}) = 1
RECURSIVE BranchPaths(_)
BranchPaths(m) ==
    IF m = 0 THEN {<<q>> : q \in BranchPoints}
    ELSE UNION {{Append(path, q) :
                   q \in {q \in BranchPoints : Aligned(q, path[Len(path)])}} :
                path \in BranchPaths(m - 1)}

\* A path tree: branch element e runs from node e to node e + 1.
InitBranch ==
    /\ pc = "start"
    /\ ne = 0
    /\ NoTree /\ NoOrders /\ NoTerminals /\ NoSlow /\ NoStats /\ NoBinning /\ NoEllipse
    /\ \E m \in 1 .. MaxBranches : \E path \in BranchPaths(m) :
          /\ branch_node = [q \in 0 .. m |->
                              [k \in 0 .. 3 |-> IF k = 0 THEN q ELSE path[q + 1][k]]]
          /\ branch_el = [e \in 0 .. m - 1 |->
                            [k \in 0 .. 2 |-> IF k = 0 THEN e ELSE e + k - 1]]
    /\ rectangular_mesh \in BranchMeshes
    /\ radii = [x_radius |-> 2, y_radius |-> 1, z_radius |-> 2]
    /\ p_vol \in Occupancies(rectangular_mesh, radii)
    /\ total_vol_samp_gr = Unused
    /\ br_num_in_samp_gr = Unused
    /\ vol_each_br = Unused
    /\ b_count = Unused
    /\ total_br_vol = Unused

NextBranch == BranchStart \/ BranchStep \/ BranchReturn

\* cal_br_vol_samp_grid on paths of axis-parallel branch elements.
SpecBranch == InitBranch /\ [][NextBranch]_vars

(***************************************************************************)
(* tree_statistics.  A name is read from the function's local names, then  *)
(* from the module's names; a name bound in neither raises NameError.      *)
(***************************************************************************)
\* Lines 2-7 and the def statements: the names bound in the module.
ModuleNames ==
    {"np", "pg_utilities", "time", "sys", "math", "numpy",
     "calc_terminal_branch", "evaluate_orders", "define_radius_by_order",
     "tree_statistics", "terminals_in_sampling_grid_fast",
     "terminals_in_sampling_grid", "ellipse_volume_to_grid",
     "cal_br_vol_samp_grid"}

\* Lines 148-176: the parameters and the names assigned before the loops.
NamesAtStart ==
    {"node_loc", "elems", "radius", "orders", "num_elems", "diameters",
     "connectivity", "elem_upstream", "elem_downstream", "num_schemes",
     "generation", "horsfield", "strahler", "index", "lengths", "nbranches",
     "branches"}

NameBound(name) == name \in bound_names \cup ModuleNames

\* Line 161
num_schemes == 3

\* Lines 156-176: diameters, connectivity and the zeroed arrays.
StatsStart ==
    /\ pc = "start"
    /\ diameters' = [e \in DOMAIN radius |-> 2 * radius[e]]
    /\ LET c == element_connectivity_1D(elems) IN
        /\ elem_upstream' = c.elem_up
        /\ elem_downstream' = c.elem_down
    /\ lengths' = Zeros(num_elems)
    /\ nbranches' = [i \in 0 .. num_schemes |-> Zeros(num_elems)]
    /\ branches' = Zeros(num_elems)
    /\ bound_names' = NamesAtStart
    /\ ne' = 0
    /\ pc' = "lengths"
    /\ UNCHANGED <<elems, num_nodes, orderVars, termVars, meshVars, binVars,
                   ellVars, brVars, slowVars, radius, N>>

\* Lines 178-183: the length of one element; lines 185-188 after the last.
StatsLength ==
    /\ pc = "lengths"
    /\ LET point1 == Slice14(node_loc[elems[ne][1]])
           point2 == Slice14(node_loc[elems[ne][2]])
       IN lengths' = [lengths EXCEPT ![ne] = Norm(Sub(point1, point2))]
    /\ IF ne + 1 < num_elems
          THEN /\ pc' = pc /\ ne' = ne + 1
               /\ bound_names' = bound_names \cup {"ne", "np1", "np2", "point1", "point2"}
               /\ UNCHANGED N
          ELSE /\ pc' = "branches" /\ ne' = 0
               /\ N' = 1
               /\ bound_names' = bound_names \cup
                     {"ne", "np1", "np2", "point1", "point2",
                      "ntotal", "num_dpp", "num_llp", "N"}
    /\ UNCHANGED <<treeVars, orderVars, termVars, meshVars, binVars, ellVars,
                   brVars, slowVars, radius, diameters, nbranches, branches>>

\* Lines 192-199: a new branch begins at element e.
StartsBranch(e) ==
    LET num_upstream == elem_upstream[e][0]
        ne0 == elem_upstream[e][1]
    IN \/ num_upstream = 0
       \/ generation[ne0] # generation[e]

\* Lines 200-207: the orders of the new branch in column N - 1.
BranchOrders(nb, col, e) ==
    [i \in 0 .. num_schemes |->
        [nb[i] EXCEPT ![col] =
            IF i = 0 THEN generation[e]
            ELSE IF i = 1 THEN horsfield[e]
            ELSE IF i = 2 THEN strahler[e]
            ELSE IF elem_upstream[e][0] # 0 THEN strahler[elem_upstream[e][1]]
            ELSE 0]]

\* Lines 213-219: the lengths of the elements that follow element e one
\* after the other.
RECURSIVE SegmentLengths(_, _)
SegmentLengths(e, left) ==
    IF elem_downstream[e][0] = 1 /\ left > 0
       THEN lengths[elem_downstream[e][1]]
               + SegmentLengths(elem_downstream[e][1], left - 1)
       ELSE 0

\* Lines 189-220: one element of the second loop.
StatsBranch ==
    /\ pc = "branches"
    /\ LET add == StartsBranch(ne)
           n == IF add THEN N + 1 ELSE N
       IN IF add /\ ~InRange(n - 1, num_elems)
             THEN \* line 203: nbranches[i][N - 1] is out of bounds
                  /\ pc' = "raised_IndexError"
                  /\ N' = n
                  /\ bound_names' = bound_names \cup
                        {"num_upstream", "ne0", "add", "i"}
                  /\ UNCHANGED <<ne, nbranches, branches>>
          ELSE IF ~NameBound("diameter")
             THEN \* line 212: the name diameter is not bound
                  /\ pc' = "raised_NameError"
                  /\ N' = n
                  /\ nbranches' = IF add THEN BranchOrders(nbranches, n - 1, ne)
                                          ELSE nbranches
                  /\ bound_names' = bound_names \cup
                        {"num_upstream", "ne0", "add", "i", "n_segments"}
                  /\ UNCHANGED <<ne, branches>>
          ELSE /\ N' = n
               /\ nbranches' = IF add THEN BranchOrders(nbranches, n - 1, ne)
                                       ELSE nbranches
               /\ branches' = [branches EXCEPT ![PyIndex(n - 1, num_elems)] =
                                  lengths[ne] + SegmentLengths(ne, num_elems)]
               /\ bound_names' = bound_names \cup
                     {"num_upstream", "ne0", "add", "i", "n_segments",
                      "mean_diameter", "ne_next"}
               /\ IF ne + 1 < num_elems
                     THEN pc' = pc /\ ne' = ne + 1
                     ELSE pc' = "done" /\ ne' = ne
    /\ UNCHANGED <<treeVars, orderVars, termVars, meshVars, binVars, ellVars,
                   brVars, slowVars, radius, diameters, lengths>>

\* A tree with a radius per element and orders of 1 or 2 per element; node
\* q lies at (q, 0, 0).
InitStats ==
    /\ pc = "start"
    /\ ne = 0
    /\ elems \in TreesUpTo(MaxStatElems)
    /\ num_nodes = LargestNode(elems) + 1
    /\ elem_upstream = Unused
    /\ elem_downstream = Unused
    /\ generation \in [DOMAIN elems -> 1 .. 2]
    /\ horsfield \in [DOMAIN elems -> 1 .. 2]
    /\ strahler = horsfield
    /\ maxgen = Unused
    /\ NoTerminals /\ NoMesh /\ NoEllipse /\ NoBranches /\ NoSlow
    /\ node_loc = [q \in 0 .. num_nodes - 1 |->
                     [m \in 0 .. 3 |-> IF m = 0 \/ m = 1 THEN q ELSE 0]]
    /\ terminal_list = Unused
    /\ terminals_in_grid = Unused
    /\ terminal_elems = Unused
    /\ nt = Unused
    /\ radius \in [DOMAIN elems -> 1 .. 2]
    /\ diameters = Unused
    /\ lengths = Unused
    /\ N = Unused
    /\ nbranches = Unused
    /\ branches = Unused
    /\ bound_names = {"node_loc", "elems", "radius", "orders"}

NextStats == StatsStart \/ StatsLength \/ StatsBranch

\* tree_statistics on every tree numbered parent-before-child.
SpecStats == InitStats /\ [][NextStats]_vars

\* C12: tree_statistics reads no undefined diameter: on every tree with at
\* least one element it runs to its end without NameError.
C12_DiameterDefined == pc # "raised_NameError"

(***************************************************************************)
(* Properties of the sampling-grid functions                               *)
(***************************************************************************)
\* The coordinate of the k-th terminal handled by
\* terminals_in_sampling_grid_fast.
TerminalCoord(k) == Slice14(node_loc[terminal_list.terminal_nodes[k]])

\* C7: on a uniform grid numbered x-fastest, the cell index computed for the
\* centroid of cell i is i, for every cell i, by the formula of
\* terminals_in_sampling_grid_fast and by the formula of the point binning
\* of cal_br_vol_samp_grid; a terminal at the centroid of cell i is recorded
\* in cell i and the two formulas agree on every terminal handled.
C7_GridRoundTrip ==
    pc \in {"binning", "done", "raised"} =>
       \A fast \in {TerminalGridFrame(rectangular_mesh)},
          branch \in {BranchGridFrame(rectangular_mesh)} :
          /\ \A i \in DOMAIN rectangular_mesh.elems :
                /\ TerminalCellIndex(fast, Centroid(rectangular_mesh, i)) = i
                /\ BranchCellIndex(branch,
                         Scale(LengthUnit, Centroid(rectangular_mesh, i))) = i
                /\ \A k \in 0 .. nt - 1 :
                      TerminalCoord(k) = Centroid(rectangular_mesh, i)
                         => /\ terminal_elems[k] = i
                            /\ terminals_in_grid[i] >= 1
          /\ \A k \in 0 .. nt - 1 :
                terminal_elems[k] =
                   BranchCellIndex(branch, Scale(LengthUnit, TerminalCoord(k)))

\* A terminal at the centroid of the last cell of a grid with different
\* numbers of cells along x and y and more than one cell along y and z.
C7_Witness ==
    /\ pc = "done"
    /\ LET g == TerminalGridFrame(rectangular_mesh)
           last == rectangular_mesh.total_elems - 1
       IN /\ g.nelem_x # g.nelem_y
          /\ g.nelem_y > 1
          /\ g.nelem_z > 1
          /\ \E k \in 0 .. nt - 1 :
                /\ TerminalCoord(k) = Centroid(rectangular_mesh, last)
                /\ terminal_elems[k] = last

\* The ellipsoid lies within cell c of the grid.
CellContainsEllipsoid(mesh, rad, c) ==
    /\ CellMin(mesh, c)[0] <= -rad.x_radius /\ rad.x_radius <= CellMax(mesh, c)[0]
    /\ CellMin(mesh, c)[1] <= -rad.y_radius /\ rad.y_radius <= CellMax(mesh, c)[1]
    /\ CellMin(mesh, c)[2] <= -rad.z_radius /\ rad.z_radius <= CellMax(mesh, c)[2]

\* C8: when the mesh is a single cell that contains the ellipsoid, all 8
\* corners outside it, ellipse_volume_to_grid reports one non-empty cell
\* and a volume for it that is not 0.
C8_SingleCellVolume ==
    ( /\ pc = "done"
      /\ rectangular_mesh.total_elems = 1
      /\ CellContainsEllipsoid(rectangular_mesh, radii, 0)
      /\ CornersInRange(rectangular_mesh, radii, 0) = {} )
    => /\ Len0(non_empty_loc) = 1
       /\ pl_vol_in_grid[0] > 0

\* A node neither strictly inside nor on the surface of the ellipsoid.
NodeOutside(q) ==
    /\ ~check_in_ellipsoid(q[0], q[1], q[2],
                           radii.x_radius, radii.y_radius, radii.z_radius)
    /\ ~check_on_ellipsoid(q[0], q[1], q[2],
                           radii.x_radius, radii.y_radius, radii.z_radius)
ElementOutside(e) == NodeOutside(BranchN1(e)) \/ NodeOutside(BranchN2(e))

\* C9: cal_br_vol_samp_grid ends the run at an element if and only if one
\* of its two end nodes is neither inside nor on the ellipsoid: the element
\* it stops at has such a node, and no element it has handled has one.
C9_AbortIffOutside ==
    /\ pc = "exit_outside" => ElementOutside(ne)
    /\ pc \in {"branches", "countercheck", "done", "exit_outside",
                "exit_countercheck"}
          => \A e \in 0 .. b_count - 1 : ~ElementOutside(e)

\* A sample point within cell c of the grid.
InCell(mesh, c, pt) ==
    \A a \in 0 .. 2 : /\ CellMin(mesh, c)[a] * LengthUnit <= pt[a]
                       /\ pt[a] < CellMax(mesh, c)[a] * LengthUnit

\* The cells that hold every sample point of element e: one cell or none.
HomeCells(e) ==
    UNION {{c \in DOMAIN rectangular_mesh.elems :
               \A q \in DOMAIN dps : InCell(rectangular_mesh, c, dps[q])} :
           dps \in {datapoints(BranchN1(e), BranchN2(e))}}

\* The pairs <<e, c>> of a handled element e and the cell c that holds all
\* its sample points.
Homes == UNION {{<<e, c>> : c \in HomeCells(e)} : e \in 0 .. b_count - 1}

\* C10: after any number of elements the volumes of column 0 of
\* total_vol_samp_gr add up to the volume of the elements handled, which is
\* total_br_vol at the return; column 1 is column 0 times 2r in every
\* cell; and a cell holds the whole volume of every element whose sample
\* points all lie within it, so that when every element handled lies within
\* one cell no other cell holds any volume.
C10_VolumeShares ==
    pc \in {"branches", "countercheck", "done", "exit_outside", "exit_countercheck"} =>
       LET cells == DOMAIN total_vol_samp_gr
           handled == 0 .. b_count - 1
           col0 == [c \in cells |-> total_vol_samp_gr[c][0]]
       IN /\ SumTo(col0, Len0(col0) - 1) = SetSum(vol_each_br, handled)
          /\ pc = "done" => total_br_vol = SumTo(col0, Len0(col0) - 1)
          /\ \A c \in cells :
                total_vol_samp_gr[c][1] = total_vol_samp_gr[c][0] * 2 * RadiusTenths
          /\ \A homes \in {Homes} : \A c \in cells :
                LET within == {e \in handled : <<e, c>> \in homes}
                IN /\ total_vol_samp_gr[c][0] >= SetSum(vol_each_br, within)
                   /\ (handled # {} /\ within = handled) =>
                         /\ total_vol_samp_gr[c][0] = SetSum(vol_each_br, handled)
                         /\ \A d \in cells \ {c} : total_vol_samp_gr[d][0] = 0

\* Two elements handled and returned, one with all its sample points in one
\* cell and one with its sample points in two cells.
C10_Witness ==
    /\ pc = "done"
    /\ b_count = 2
    /\ \A homes \in {Homes} :
          /\ \E e \in 0 .. 1 : \E c \in DOMAIN total_vol_samp_gr : <<e, c>> \in homes
          /\ \E e \in 0 .. 1 : \A c \in DOMAIN total_vol_samp_gr : <<e, c>> \notin homes
    /\ \E c, d \in DOMAIN total_vol_samp_gr :
          c # d /\ total_vol_samp_gr[c][0] > 0 /\ total_vol_samp_gr[d][0] > 0

\* C11: cal_br_vol_samp_grid returns only when no cell has branch volume
\* and an occupancy of exactly 0 in p_vol, and the countercheck ends the run
\* exactly when there is such a cell.
C11_Countercheck ==
    LET outside == {i \in DOMAIN total_vol_samp_gr :
                      /\ p_vol.pl_vol_in_grid[i] = 0
                      /\ total_vol_samp_gr[i][0] > 0}
    IN /\ pc = "done" => outside = {}
       /\ pc = "exit_countercheck" => outside # {}

\* The run ends at the countercheck for a cell other than the first, on a
\* grid with occupied cells.
C11_Witness ==
    /\ pc = "exit_countercheck"
    /\ \E i \in DOMAIN total_vol_samp_gr : p_vol.pl_vol_in_grid[i] > 0
    /\ \E i \in DOMAIN total_vol_samp_gr :
          /\ i > 0
          /\ p_vol.pl_vol_in_grid[i] = 0
          /\ total_vol_samp_gr[i][0] > 0

(***************************************************************************)
(* More properties of evaluate_orders                                      *)
(***************************************************************************)
\* A tree without bifurcations: no element has two or more daughters.
IsChain == \A e \in DOMAIN elems : Cardinality(Children(e)) <= 1

RECURSIVE GenerationPass(_, _, _, _)
GenerationPass(gen, up, down, e) ==
    IF e >= Cardinality(DOMAIN gen) THEN gen
    ELSE GenerationPass([gen EXCEPT ![e] = GenerationOf(gen, up, down, e)],
                        up, down, e + 1)

\* Lines 93-119 as one function: the backward loop from element e on; o is
\* [horsfield, strahler].
RECURSIVE OrdersPass(_, _, _, _)
OrdersPass(gen, o, down, e) ==
    IF e < 0 THEN o
    ELSE LET v == OrdersOf(gen, o.horsfield, o.strahler, down, e) IN
         OrdersPass(gen,
                    [horsfield |-> [o.horsfield EXCEPT ![e] = v.horsfield],
                     strahler  |-> [o.strahler EXCEPT ![e] = v.strahler]],
                    down, e - 1)

\* Lines 59-121: the orders evaluate_orders returns for the element list el.
evaluate_orders(el) ==
    LET n == Cardinality(DOMAIN el)
        c == element_connectivity_1D(el)
        gen == GenerationPass(Zeros(n), c.elem_up, c.elem_down, 0)
        o == OrdersPass(gen, [horsfield |-> Zeros(n), strahler |-> Zeros(n)],
                        c.elem_down, n - 1)
    IN [generation |-> gen, horsfield |-> o.horsfield, strahler |-> o.strahler]

\* The element list el with element e renumbered perm[e]; the nodes keep
\* their numbers.
Renumber(el, perm) ==
    LET old(k) == CHOOSE e \in DOMAIN el : perm[e] = k IN
    [k \in DOMAIN el |->
        [j \in 0 .. 2 |-> IF j = 0 THEN k ELSE el[old(k)][j]]]

\* perm numbers every element after its upstream element.
ParentFirst(perm) ==
    \A e \in DOMAIN elems : \A p \in Parents(e) : perm[p] < perm[e]

\* The list is a tree in some numbering: one inlet, one upstream element for
\* every other element, and an order that puts parents first.
IsTree ==
    /\ ~MultipleInlets
    /\ ~Reconvergent
    /\ \E perm \in Permutations(DOMAIN elems) : ParentFirst(perm)

\* C14: evaluate_orders visits every element of a tree after its upstream
\* element in the generation pass, and under any renumbering of the elements
\* of the same tree, also one that numbers a daughter before its parent,
\* every element gets the same generation, horsfield and strahler.
C14_RenumberingInvariant ==
    IsTree =>
        /\ pc = "generation" => \A p \in Parents(ne) : p < ne
        /\ pc = "done" =>
              \A perm \in Permutations(DOMAIN elems) :
                  \A res \in {evaluate_orders(Renumber(elems, perm))} :
                      \A e \in DOMAIN elems :
                          /\ res.generation[perm[e]] = generation[e]
                          /\ res.horsfield[perm[e]] = horsfield[e]
                          /\ res.strahler[perm[e]] = strahler[e]

(***************************************************************************)
(* terminals_in_sampling_grid                                              *)
(***************************************************************************)
\* Lines 283-289: the coordinate is within the box from min_coords to
\* max_coords, the minimum faces included and the maximum faces not.
InElement(coord_terminal, min_coords, max_coords) ==
    /\ coord_terminal[0] >= min_coords[0]
    /\ coord_terminal[0] < max_coords[0]
    /\ coord_terminal[1] >= min_coords[1]
    /\ coord_terminal[1] < max_coords[1]
    /\ coord_terminal[2] >= min_coords[2]
    /\ coord_terminal[2] < max_coords[2]

\* Lines 265-269: the zeroed arrays; line 294 when placenta_list is empty.
SlowStart ==
    /\ pc = "start"
    /\ terminals_in_grid' = Zeros(Len0(rectangular_mesh.elems))
    /\ terminal_mapped' = Zeros(terminal_list.total_terminals)
    /\ terminal_elems' = Zeros(terminal_list.total_terminals)
    /\ ne_i' = 0
    /\ nt' = 0
    /\ pc' = IF Len0(placenta_list) > 0 THEN "cells" ELSE "done"
    /\ UNCHANGED <<ne, treeVars, orderVars, termVars, meshVars, statsVars,
                   node_loc, terminal_list, ellVars, brVars, placenta_list>>

\* Lines 271-279: the next listed cell; a cell whose number is not above 0
\* is passed over.  Line 294 after the last.
SlowCell ==
    /\ pc = "cells"
    /\ ne' = placenta_list[ne_i]
    /\ IF placenta_list[ne_i] > 0 /\ terminal_list.total_terminals > 0
          THEN pc' = "terminals" /\ nt' = 0 /\ ne_i' = ne_i
          ELSE /\ nt' = nt
               /\ ne_i' = ne_i + 1
               /\ pc' = IF ne_i + 1 < Len0(placenta_list) THEN pc ELSE "done"
    /\ UNCHANGED <<treeVars, orderVars, termVars, meshVars, statsVars,
                   node_loc, terminal_list, terminals_in_grid, terminal_elems,
                   ellVars, brVars, placenta_list, terminal_mapped>>

\* Lines 276-293: one terminal against cell ne; after the last terminal the
\* next listed cell, and line 294 after the last cell.
SlowTerminal ==
    /\ pc = "terminals"
    /\ LET first_node == rectangular_mesh.elems[ne][1]
           last_node == rectangular_mesh.elems[ne][8]
           min_coords == rectangular_mesh.nodes[first_node]
           max_coords == rectangular_mesh.nodes[last_node]
           coord_terminal == Slice14(node_loc[terminal_list.terminal_nodes[nt]])
       IN IF terminal_mapped[nt] = 0
             /\ InElement(coord_terminal, min_coords, max_coords)
             THEN /\ terminals_in_grid' = [terminals_in_grid EXCEPT ![ne] = @ + 1]
                  /\ terminal_mapped' = [terminal_mapped EXCEPT ![nt] = 1]
                  /\ terminal_elems' = [terminal_elems EXCEPT ![nt] = ne]
             ELSE UNCHANGED <<terminals_in_grid, terminal_mapped, terminal_elems>>
    /\ IF nt + 1 < terminal_list.total_terminals
          THEN pc' = pc /\ nt' = nt + 1 /\ ne_i' = ne_i
          ELSE /\ nt' = nt + 1
               /\ ne_i' = ne_i + 1
               /\ pc' = IF ne_i + 1 < Len0(placenta_list) THEN "cells" ELSE "done"
    /\ UNCHANGED <<ne, treeVars, orderVars, termVars, meshVars, statsVars,
                   node_loc, terminal_list, ellVars, brVars, placenta_list>>

\* Lines 223-256 as one function: the result of
\* terminals_in_sampling_grid_fast, or raised when an index is off the array.
terminals_in_sampling_grid_fast(mesh, tlist, nloc) ==
    LET g == TerminalGridFrame(mesh)
        len == Len0(mesh.elems)
        T == 0 .. tlist.total_terminals - 1
        nelem == [k \in T |->
                    TerminalCellIndex(g, Slice14(nloc[tlist.terminal_nodes[k]]))]
    IN [raised |-> \E k \in T : ~InRange(nelem[k], len),
        terminals_in_grid |->
            [c \in 0 .. len - 1 |->
                Cardinality({k \in T : InRange(nelem[k], len)
                                         /\ PyIndex(nelem[k], len) = c})],
        terminal_elems |-> nelem]

\* The lists of cells given as placenta_list for a grid of total cells:
\* every cell in rising and in falling order, every cell but cell 0, and
\* every cell twice over.
PlacentaLists(total) ==
    {[k \in 0 .. total - 1 |-> k],
     [k \in 0 .. total - 1 |-> total - 1 - k],
     [k \in 0 .. total - 2 |-> k + 1],
     [k \in 0 .. 2 * total - 1 |-> k % total]}

\* Grids as for the fast binner; each terminal at the centre or at the
\* minimum corner of a cell.
InitSlow ==
    /\ pc = "start"
    /\ ne = 0
    /\ NoTree /\ NoOrders /\ NoTerminals /\ NoStats /\ NoEllipse /\ NoBranches
    /\ radii = Unused
    /\ \E f \in GridFrames, n \in CellCounts :
          rectangular_mesh = gen_rectangular_mesh(f[1], f[2], n)
    /\ \E t \in 1 .. MaxSlowTerminals :
          /\ \E pts \in [1 .. t -> UNION {{Centroid(rectangular_mesh, c),
                                            CellMin(rectangular_mesh, c)} :
                                             c \in DOMAIN rectangular_mesh.elems}] :
                node_loc = [q \in 0 .. t |->
                              [m \in 0 .. 3 |->
                                 IF m = 0 THEN q
                                 ELSE IF q = 0
                                    THEN CellMin(rectangular_mesh, 0)[m - 1]
                                    ELSE pts[q][m - 1]]]
          /\ terminal_list = [total_terminals |-> t,
                              terminal_nodes |-> [k \in 0 .. t - 1 |-> t - k]]
    /\ placenta_list \in PlacentaLists(rectangular_mesh.total_elems)
    /\ terminals_in_grid = Unused
    /\ terminal_elems = Unused
    /\ terminal_mapped = Unused
    /\ ne_i = 0
    /\ nt = 0

NextSlow == SlowStart \/ SlowCell \/ SlowTerminal

\* terminals_in_sampling_grid on terminals at cell centres and corners.
SpecSlow == InitSlow /\ [][NextSlow]_vars

\* The listed cell that holds the k-th terminal, if there is one.
ListedCells == {placenta_list[i] : i \in DOMAIN placenta_list}
InListedCell(k) ==
    \E c \in ListedCells :
        InElement(TerminalCoord(k), CellMin(rectangular_mesh, c),
                  CellMax(rectangular_mesh, c))

\* C15: the two terminal binners agree.  For every terminal in a cell listed
\* in placenta_list, cell 0 included, terminals_in_sampling_grid records the
\* cell terminals_in_sampling_grid_fast records and counts the terminal
\* once, and when every terminal is in a listed cell the counts per cell are
\* those of the fast binner and add up to total_terminals.
C15_BinnersAgree ==
    pc = "done" =>
        \A fast \in {terminals_in_sampling_grid_fast(rectangular_mesh,
                                                     terminal_list, node_loc)} :
            LET T == 0 .. terminal_list.total_terminals - 1
                cells == DOMAIN rectangular_mesh.elems
            IN /\ \A k \in T :
                     InListedCell(k) =>
                        /\ terminal_elems[k] = fast.terminal_elems[k]
                        /\ terminal_mapped[k] = 1
               /\ \A c \in cells :
                     terminals_in_grid[c] =
                        Cardinality({k \in T : /\ InListedCell(k)
                                               /\ fast.terminal_elems[k] = c})
               /\ (\A k \in T : InListedCell(k)) =>
                     /\ terminals_in_grid = fast.terminals_in_grid
                     /\ SetSum(terminals_in_grid, cells)
                           = terminal_list.total_terminals

=============================================================================
